---------------------------- MODULE Spec2Model ----------------------------
(***************************************************************************)
(* Model of facebook_timeline_cleanup.py: main(), validate_config and the  *)
(* FacebookCleaner session loop (clean_profile_gradually,                  *)
(* delete_posts_batch, find_posts_on_page, attempt_post_deletion, close).  *)
(* The automation engine (selenium) is the environment: every lookup,      *)
(* click and wait picks its outcome nondeterministically.                  *)
(***************************************************************************)
EXTENDS Integers, Sequences, FiniteSets, TLC

VARIABLES
    config,             \* the merged configuration handed to validate_config
    pc,                 \* position of the single thread of control
    exit_code,          \* value returned by main(); -1 while running
    cleaner,            \* main's local: "None" or "obj"
    browser_created,    \* webdriver.Chrome(...) has returned a session
    quit_calls,         \* number of driver.quit() invocations
    stats,              \* FacebookCleaner.stats (the integer counters)
    printed,            \* snapshots handed to print_final_report, in order
    session,            \* clean_profile_gradually: loop variable (0-based)
    session_deleted,    \* clean_profile_gradually: result of the last batch
    posts,              \* delete_posts_batch: the result of find_posts_on_page
    posts_to_process,   \* delete_posts_batch: posts[:max_posts]
    i,                  \* delete_posts_batch: enumerate index (0-based)
    deleted_count,      \* delete_posts_batch: local counter
    sel,                \* index of the selector a strategy loop is trying
    menu_button,        \* attempt_post_deletion locals: "None" or "elem"
    delete_option,
    confirm_button,
    ret,                \* return value of the last attempt_post_deletion
    remaining,          \* clean_profile_gradually: countdown of the cooldown
    clicks,             \* click/type primitives invoked by the current operation
    attempted,          \* elements handed to attempt_post_deletion this session
    stats0,             \* stats when the current item attempt began
    raised,             \* the current item attempt caught an engine exception
    sessions_started,   \* number of "SESSION n/m" iterations entered
    refreshes,          \* number of calls of driver.refresh()
    zero_session,       \* 1-based number of the first session whose batch
                        \* returned 0; 0 while there is none
    interrupted,        \* a KeyboardInterrupt has been raised
    stats_at_interrupt, \* stats when the KeyboardInterrupt was raised
    outcome,            \* the event that decides how main() returns; "" while
                        \* there is none
    batches_deleted,    \* sum of the values delete_posts_batch has returned
    item_gone,          \* the page no longer shows the item whose confirm
                        \* control was looked for in vain
    slept,              \* durations of the sleeps of the pause in progress
    lists,              \* find_posts_on_page lines 428-436 on its own: the
                        \* candidate list and the results of the loop
    confirm,            \* main's local: what the operator typed at the
                        \* prompt; "None" before the prompt
    args                \* main's local: the parsed command line as
                        \* merge_config_with_args reads it; "None" where
                        \* the run is taken up after the merge

vars == <<config, pc, exit_code, cleaner, browser_created, quit_calls, stats,
          printed, session, session_deleted, posts_to_process, i,
          deleted_count, sel, menu_button, delete_option, confirm_button, ret,
          remaining, clicks, posts, attempted, stats0, raised, sessions_started,
          refreshes, zero_session, interrupted, stats_at_interrupt, outcome,
          batches_deleted, item_gone, slept, lists, confirm, args>>

\* groups of variables, by the frame that owns them
mainVars == <<exit_code, cleaner, browser_created, quit_calls, printed>>
loopVars == <<session, session_deleted, remaining>>
batchVars == <<posts_to_process, i, deleted_count>>
itemVars == <<menu_button, delete_option, confirm_button, ret>>
obsSession == <<sessions_started, refreshes, zero_session, batches_deleted>>
obsBatch == <<posts, attempted, slept>>
obsItem == <<stats0, raised, item_gone>>
intVars == <<interrupted, stats_at_interrupt>>
cfgVars == <<config, lists, confirm, args>>

-----------------------------------------------------------------------------
\* Bounds of the model
MaxSessions == 3
MaxPostsPerSession == 2
MaxSessionDelay == 1
MaxDelay == 2
MaxRaw == 2

\* Lengths of the selector lists in the source
NumCookieSelectors == 4
NumPostSelectors == 5
NumMenuSelectors == 5
NumDeleteSelectors == 5
NumConfirmSelectors == 5

Min(a, b) == IF a <= b THEN a ELSE b

\* random.uniform(a, b) is a + (b - a) * random(): a value between the two
\* arguments, whichever is the larger (here over the integers)
uniform(a, b) == IF a <= b THEN a .. b ELSE b .. a

-----------------------------------------------------------------------------
\* Configuration

\* the fields of the configuration read by validate_config and by the run
ConfigSpace ==
    [email : {"", "user@example.com"},
     password : {"", "secret"},
     whatif : BOOLEAN,
     verbose : BOOLEAN,
     max_sessions : -1 .. MaxSessions,
     posts_per_session : -1 .. MaxPostsPerSession,
     session_delay : -1 .. MaxSessionDelay,
     min_action_delay : 1 .. MaxDelay,
     max_action_delay : 1 .. MaxDelay,
     min_delete_delay : 1 .. MaxDelay,
     max_delete_delay : 1 .. MaxDelay]

\* validate_config with the session check written "< 0"
validate_message_ZeroSessions(c) ==
    IF c.email = "" THEN "Email missing"
    ELSE IF c.password = "" /\ ~c.whatif THEN "Password missing"
    ELSE IF c.max_sessions < 0 THEN "Sessions must be greater than 0"
    ELSE IF c.posts_per_session <= 0 THEN "Posts per session must be greater than 0"
    ELSE IF c.session_delay < 0 THEN "Session delay cannot be negative"
    ELSE IF c.min_action_delay > c.max_action_delay THEN "Minimum delay greater than maximum"
    ELSE "Configuration valid"

\* validate_config, check by check in source order; the first failing check
\* decides the message
validate_message(c) ==
    IF c.email = "" THEN "Email missing"
    ELSE IF c.password = "" /\ ~c.whatif THEN "Password missing"
    ELSE IF c.max_sessions <= 0 THEN "Sessions must be greater than 0"
    ELSE IF c.posts_per_session <= 0 THEN "Posts per session must be greater than 0"
    ELSE IF c.session_delay < 0 THEN "Session delay cannot be negative"
    ELSE IF c.min_action_delay > c.max_action_delay THEN "Minimum delay greater than maximum"
    ELSE "Configuration valid"

validate_config(c) == validate_message(c) = "Configuration valid"

\* create_default_config: the timing defaults keep min <= max
DefaultTiming == [min_action_delay |-> 1, max_action_delay |-> MaxDelay,
                  min_delete_delay |-> 1, max_delete_delay |-> MaxDelay]

\* configurations of the runs explored in full: every accepted combination of
\* mode, verbosity and loop limits, with the default timing bounds; without
\* verbose the session delay is only the argument of one sleep and is left
\* at one value
RunConfigs ==
    {c \in ConfigSpace :
        /\ validate_config(c)
        /\ c.email # "" /\ c.password # ""
        /\ c.session_delay >= 0
        /\ ~c.verbose => c.session_delay = MaxSessionDelay
        /\ c.min_action_delay = DefaultTiming.min_action_delay
        /\ c.max_action_delay = DefaultTiming.max_action_delay
        /\ c.min_delete_delay = DefaultTiming.min_delete_delay
        /\ c.max_delete_delay = DefaultTiming.max_delete_delay}

-----------------------------------------------------------------------------
\* Statistics

ZeroStats == [posts_found |-> 0, posts_deleted |-> 0, posts_skipped |-> 0,
              errors_encountered |-> 0, sessions_completed |-> 0]

\* get_final_stats building its snapshot from fresh counters
get_final_stats_Fresh(s) == ZeroStats

\* get_final_stats: {**self.stats, ...}; the counters are copied as they are
get_final_stats(s) ==
    [posts_found |-> s.posts_found,
     posts_deleted |-> s.posts_deleted,
     posts_skipped |-> s.posts_skipped,
     errors_encountered |-> s.errors_encountered,
     sessions_completed |-> s.sessions_completed]

Bump(s, key) == [s EXCEPT ![key] = @ + 1]

-----------------------------------------------------------------------------
\* Page elements and deduplication (find_posts_on_page)

TestIds == {"", "activity-log-item", "fbfeed_story"}
DomIds == {"", "d1"}
TextHeads == {"p", "q"}
Elements == [testid : TestIds, id : DomIds, head : TextHeads]

\* str(hash(post.text[:50])): one string per 50-character prefix
HashStr(head) == IF head = "p" THEN "1001" ELSE "1002"

\* the id attribute read before data-testid
ElementId_IdFirst(e) ==
    IF e.id # "" THEN e.id
    ELSE IF e.testid # "" THEN e.testid
    ELSE HashStr(e.head)

\* post.get_attribute('data-testid') or post.get_attribute('id') or str(hash(...))
ElementId(e) ==
    IF e.testid # "" THEN e.testid
    ELSE IF e.id # "" THEN e.id
    ELSE HashStr(e.head)

\* the elements a scan of the run returns: the attributes below the one
\* that decides the identity are left at one value
ScanElements ==
    {e \in Elements : /\ e.testid # "" => e.id = ""
                      /\ (e.testid # "" \/ e.id # "") => e.head = "p"}

RawLists == UNION {[1 .. n -> ScanElements] : n \in 0 .. MaxRaw}

\* the loop over all_posts; an element is denoted by its position in all_posts
RECURSIVE DedupFrom(_, _, _, _)
DedupFrom(all_posts, k, unique_posts, seen_elements) ==
    IF k > Len(all_posts) THEN unique_posts
    ELSE IF ElementId(all_posts[k]) \notin seen_elements
         THEN DedupFrom(all_posts, k + 1, Append(unique_posts, k),
                        seen_elements \cup {ElementId(all_posts[k])})
         ELSE DedupFrom(all_posts, k + 1, unique_posts, seen_elements)

\* the loop started at the second candidate
Dedup_SkipFirst(all_posts) == DedupFrom(all_posts, 2, <<>>, {})

Dedup(all_posts) == DedupFrom(all_posts, 1, <<>>, {})

\* unique_posts filled from the front instead of the back
UniquePosts_Reversed(all_posts) ==
    [k \in 1 .. Len(Dedup(all_posts)) |->
        all_posts[Dedup(all_posts)[Len(Dedup(all_posts)) - k + 1]]]

\* unique_posts as a list of elements
UniquePosts(all_posts) ==
    [k \in 1 .. Len(Dedup(all_posts)) |-> all_posts[Dedup(all_posts)[k]]]

\* candidate lists for the loop on its own: any elements, duplicates and
\* repeats at a distance included
DedupInputs == UNION {[1 .. n -> Elements] : n \in 0 .. MaxRaw + 1}

\* the slice taken one element too long
Take_OneMore(list, max_posts) == SubSeq(list, 1, Min(max_posts + 1, Len(list)))

\* posts[:max_posts]
Take(list, max_posts) == SubSeq(list, 1, Min(max_posts, Len(list)))

-----------------------------------------------------------------------------
\* Initial state

\* the program before any of its effects, at position p, with main's
\* locals config = c and args = a and the candidate lists ls
InitArgs(c, p, ls, a) ==
    /\ config = c
    /\ pc = p
    /\ exit_code = -1
    /\ cleaner = "None"
    /\ browser_created = FALSE
    /\ quit_calls = 0
    /\ stats = ZeroStats
    /\ printed = <<>>
    /\ session = 0
    /\ session_deleted = 0
    /\ remaining = 0
    /\ posts_to_process = <<>>
    /\ i = 0
    /\ deleted_count = 0
    /\ sel = 0
    /\ menu_button = "None"
    /\ delete_option = "None"
    /\ confirm_button = "None"
    /\ ret = FALSE
    /\ clicks = <<>>
    /\ posts = <<>>
    /\ attempted = <<>>
    /\ stats0 = ZeroStats
    /\ raised = FALSE
    /\ sessions_started = 0
    /\ refreshes = 0
    /\ zero_session = 0
    /\ interrupted = FALSE
    /\ stats_at_interrupt = ZeroStats
    /\ outcome = ""
    /\ batches_deleted = 0
    /\ item_gone = FALSE
    /\ slept = <<>>
    /\ lists = ls
    /\ confirm = "None"
    /\ args = a

\* the same with the configuration c that merge_config_with_args yields
InitState(c, p, ls) == InitArgs(c, p, ls, "None")

\* main() after merge_config_with_args (line 1042)
InitWith(c) == InitState(c, "validate", <<>>)

Init == \E c \in RunConfigs : InitWith(c)

\* the frames of clean_profile_gradually and below are gone once an
\* exception or a return leaves them
Unwind ==
    /\ session' = 0
    /\ session_deleted' = 0
    /\ remaining' = 0
    /\ posts_to_process' = <<>>
    /\ i' = 0
    /\ deleted_count' = 0
    /\ sel' = 0
    /\ menu_button' = "None"
    /\ delete_option' = "None"
    /\ confirm_button' = "None"
    /\ ret' = FALSE
    /\ clicks' = <<>>
    /\ posts' = <<>>
    /\ attempted' = <<>>
    /\ stats0' = ZeroStats
    /\ raised' = FALSE
    /\ item_gone' = FALSE
    /\ slept' = <<>>

\* no frame is left
Stay ==
    /\ UNCHANGED loopVars /\ UNCHANGED batchVars /\ UNCHANGED itemVars
    /\ UNCHANGED obsBatch /\ UNCHANGED obsItem

-----------------------------------------------------------------------------
\* main(): validation, confirmation prompt, construction

\* lines 1026-1042: --save-config writes the template and returns 0 whatever
\* save_config_template met (it catches and prints); --config reads the file,
\* and a missing or malformed file (None) returns 1
LoadConfig ==
    /\ pc = "start"
    /\ \E save_config \in BOOLEAN, config_file \in BOOLEAN, io_ok \in BOOLEAN :
         IF save_config
         THEN /\ pc' = "exited"
              /\ exit_code' = 0
              /\ outcome' = IF io_ok THEN "template_saved"
                             ELSE "template_failed"
         ELSE IF config_file /\ ~io_ok
              THEN /\ pc' = "exited"
                   /\ exit_code' = 1
                   /\ outcome' = "load_failed"
              ELSE /\ pc' = "validate"
                   /\ exit_code' = exit_code
                   /\ outcome' = outcome
    /\ UNCHANGED cfgVars
    /\ UNCHANGED <<stats, sel, clicks, cleaner, browser_created, quit_calls,
                   printed>>
    /\ Stay /\ UNCHANGED obsSession /\ UNCHANGED intVars

\* lines 1044-1051: validate, exit 1 when invalid
ValidateConfig ==
    /\ pc = "validate"
    /\ IF validate_config(config)
       THEN /\ pc' = IF config.whatif THEN "construct" ELSE "confirm"
            /\ exit_code' = exit_code
            /\ outcome' = outcome
       ELSE /\ pc' = "exited"
            /\ exit_code' = 1
            /\ outcome' = "invalid"
    /\ UNCHANGED cfgVars
    /\ UNCHANGED <<stats, sel, clicks, cleaner, browser_created, quit_calls,
                   printed>>
    /\ Stay /\ UNCHANGED obsSession /\ UNCHANGED intVars

\* the comparison of line 1060 made without regard to case
ConfirmPrompt_AnyCase ==
    /\ pc = "confirm"
    /\ \E typed \in {"DELETE", "delete", ""} :
         /\ confirm' = typed
         /\ IF typed \notin {"DELETE", "delete"}
            THEN pc' = "exited" /\ exit_code' = 0 /\ outcome' = "declined"
            ELSE pc' = "construct" /\ exit_code' = exit_code
                 /\ outcome' = outcome
    /\ UNCHANGED <<config, lists, args>>
    /\ UNCHANGED <<stats, sel, clicks, cleaner, browser_created, quit_calls,
                   printed>>
    /\ Stay /\ UNCHANGED obsSession /\ UNCHANGED intVars

\* lines 1051-1062: the operator must type DELETE in real mode
ConfirmPrompt ==
    /\ pc = "confirm"
    /\ \E typed \in {"DELETE", "delete", ""} :
         /\ confirm' = typed
         /\ IF typed # "DELETE"
            THEN pc' = "exited" /\ exit_code' = 0 /\ outcome' = "declined"
            ELSE pc' = "construct" /\ exit_code' = exit_code
                 /\ outcome' = outcome
    /\ UNCHANGED <<config, lists, args>>
    /\ UNCHANGED <<stats, sel, clicks, cleaner, browser_created, quit_calls,
                   printed>>
    /\ Stay /\ UNCHANGED obsSession /\ UNCHANGED intVars

\* an exception other than KeyboardInterrupt leaves the try block of main
Escape ==
    /\ pc' = "except_exception"
    /\ outcome' = "exception"
    /\ Unwind

\* FacebookCleaner.__init__ up to setup_driver's webdriver.Chrome(...):
\* the call returns a browser session or raises
CreateDriver ==
    /\ pc = "construct"
    /\ \/ /\ browser_created' = TRUE
          /\ pc' = "setup_driver"
          /\ Stay /\ UNCHANGED <<sel, clicks, outcome>>
       \/ /\ browser_created' = browser_created
          /\ Escape
    /\ UNCHANGED cfgVars
    /\ UNCHANGED <<stats, exit_code, cleaner, quit_calls, printed>>
    /\ UNCHANGED obsSession /\ UNCHANGED intVars

\* setup_driver after the session exists (WebDriverWait, ActionChains,
\* execute_script): on an exception it logs and re-raises, and main's
\* cleaner is never assigned
FinishSetup ==
    /\ pc = "setup_driver"
    /\ \/ /\ cleaner' = "obj"
          /\ pc' = "login"
          /\ Stay /\ UNCHANGED <<sel, clicks, outcome>>
       \/ /\ cleaner' = cleaner
          /\ Escape
    /\ UNCHANGED cfgVars
    /\ UNCHANGED <<stats, exit_code, browser_created, quit_calls, printed>>
    /\ UNCHANGED obsSession /\ UNCHANGED intVars

-----------------------------------------------------------------------------
\* FacebookCleaner.login and handle_cookie_banner

\* the result of login() ignored: the session loop is entered all the same
PreconditionFailed_Ignored ==
    /\ pc' = "session_head"
    /\ outcome' = "precondition_failed"
    /\ clicks' = <<>>
    /\ sel' = 0
    /\ Stay

\* clean_profile_gradually lines 664-671: a failed precondition returns
\* get_final_stats() at once
PreconditionFailed ==
    /\ pc' = "run_return"
    /\ outcome' = "precondition_failed"
    /\ clicks' = <<>>
    /\ sel' = 0
    /\ Stay

\* login lines 206-213: open the page; any exception makes login return False
LoginOpen ==
    /\ pc = "login"
    /\ \/ /\ pc' = "cookie"
          /\ sel' = 1
          /\ clicks' = <<>>
          /\ outcome' = outcome
          /\ Stay
       \/ PreconditionFailed
    /\ UNCHANGED cfgVars /\ UNCHANGED stats
    /\ UNCHANGED mainVars /\ UNCHANGED obsSession /\ UNCHANGED intVars

\* handle_cookie_banner lines 309-327: the first clickable banner button is
\* clicked unless whatif; a timeout moves to the next selector
CookieBanner ==
    /\ pc = "cookie"
    /\ \/ /\ clicks' = IF config.whatif THEN clicks ELSE Append(clicks, "cookie")
          /\ pc' = "email"
          /\ sel' = 0
       \/ /\ clicks' = clicks
          /\ IF sel < NumCookieSelectors
             THEN sel' = sel + 1 /\ pc' = pc
             ELSE sel' = 0 /\ pc' = "email"
    /\ Stay
    /\ UNCHANGED cfgVars /\ UNCHANGED stats
    /\ UNCHANGED mainVars /\ UNCHANGED obsSession /\ UNCHANGED intVars /\ UNCHANGED outcome

\* login lines 215-245: the email and password fields are typed into key by
\* key unless whatif; a missing field raises and login returns False
LoginFields ==
    /\ pc = "email"
    /\ \/ /\ pc' = "login_button"
          /\ clicks' = IF config.whatif THEN clicks
                       ELSE clicks \o <<"email", "password">>
          /\ sel' = sel
          /\ outcome' = outcome
          /\ Stay
       \/ PreconditionFailed
    /\ UNCHANGED cfgVars /\ UNCHANGED stats
    /\ UNCHANGED mainVars /\ UNCHANGED obsSession /\ UNCHANGED intVars

\* login lines 247-294: whatif returns True without clicking; otherwise the
\* button is clicked and the verification decides
LoginButton ==
    /\ pc = "login_button"
    /\ \/ /\ IF config.whatif
             THEN pc' = "navigate" /\ clicks' = clicks
             ELSE pc' = "verify_login" /\ clicks' = Append(clicks, "login")
          /\ sel' = sel
          /\ outcome' = outcome
          /\ Stay
       \/ PreconditionFailed
    /\ UNCHANGED cfgVars /\ UNCHANGED stats
    /\ UNCHANGED mainVars /\ UNCHANGED obsSession /\ UNCHANGED intVars

\* login lines 259-294: after the click the page shows the logged-in
\* indicators, or an error, or neither; only the first makes login return
\* True
VerifyLogin ==
    /\ pc = "verify_login"
    /\ \/ /\ pc' = "navigate"
          /\ UNCHANGED <<sel, clicks, outcome>>
          /\ Stay
       \/ PreconditionFailed
    /\ UNCHANGED cfgVars /\ UNCHANGED stats
    /\ UNCHANGED mainVars /\ UNCHANGED obsSession /\ UNCHANGED intVars

\* navigate_to_activity_log lines 341-394: whatif returns True at once;
\* otherwise the direct URL or the profile link (a click) leads there, or
\* the navigation fails
Navigate ==
    /\ pc = "navigate"
    /\ IF config.whatif
       THEN pc' = "session_head" /\ clicks' = <<>> /\ outcome' = outcome
       ELSE /\ \/ pc' = "session_head" /\ outcome' = outcome
               \/ pc' = "run_return" /\ outcome' = "precondition_failed"
            /\ \E link_clicked \in BOOLEAN :
                 clicks' = IF link_clicked THEN <<"activity_link">> ELSE <<>>
    /\ sel' = sel
    /\ Stay
    /\ UNCHANGED cfgVars /\ UNCHANGED stats
    /\ UNCHANGED mainVars /\ UNCHANGED obsSession /\ UNCHANGED intVars

-----------------------------------------------------------------------------
\* clean_profile_gradually: the session loop, and delete_posts_batch

\* a session entered without the refresh of lines 685-688
SessionHead_NoRefresh ==
    /\ pc = "session_head"
    /\ UNCHANGED cfgVars /\ UNCHANGED <<stats, zero_session, batches_deleted>>
    /\ UNCHANGED mainVars /\ UNCHANGED intVars
    /\ IF session < config.max_sessions
       THEN /\ sessions_started' = sessions_started + 1
            /\ refreshes' = refreshes
            /\ \/ /\ pc' = "scan"
                  /\ sel' = 1
                  /\ clicks' = <<>>
                  /\ outcome' = outcome
                  /\ Stay
               \/ /\ session > 0 /\ ~config.whatif
                  /\ Escape
       ELSE /\ pc' = "run_return"
            /\ sessions_started' = sessions_started
            /\ refreshes' = refreshes
            /\ UNCHANGED <<sel, clicks, outcome>>
            /\ Stay

\* lines 678-688: the for statement and the refresh of later sessions
\* (driver.refresh() can raise; nothing here catches it)
SessionHead ==
    /\ pc = "session_head"
    /\ UNCHANGED cfgVars /\ UNCHANGED <<stats, zero_session, batches_deleted>>
    /\ UNCHANGED mainVars /\ UNCHANGED intVars
    /\ IF session < config.max_sessions
       THEN /\ sessions_started' = sessions_started + 1
            /\ refreshes' = IF session > 0 /\ ~config.whatif
                            THEN refreshes + 1 ELSE refreshes
            /\ \/ /\ pc' = "scan"
                  /\ sel' = 1
                  /\ clicks' = <<>>
                  /\ outcome' = outcome
                  /\ Stay
               \/ /\ session > 0 /\ ~config.whatif
                  /\ Escape
       ELSE /\ pc' = "run_return"
            /\ sessions_started' = sessions_started
            /\ refreshes' = refreshes
            /\ UNCHANGED <<sel, clicks, outcome>>
            /\ Stay

\* find_posts_on_page without the update of posts_found
ScanResult_NoCount(all_posts) ==
    /\ stats' = stats
    /\ posts' = Dedup(all_posts)
    /\ pc' = IF Dedup(all_posts) = <<>> THEN "batch_return" ELSE "for_item"
    /\ posts_to_process' = Take(Dedup(all_posts), config.posts_per_session)
    /\ i' = 0
    /\ deleted_count' = 0
    /\ sel' = 0
    /\ attempted' = <<>>
    /\ slept' = <<>>
    /\ UNCHANGED <<clicks, outcome>>
    /\ UNCHANGED loopVars /\ UNCHANGED itemVars /\ UNCHANGED obsItem

\* the tail of find_posts_on_page (lines 428-441) and delete_posts_batch
\* lines 616-622, for the candidates all_posts
ScanResult(all_posts) ==
    /\ stats' = [stats EXCEPT !.posts_found = @ + Len(Dedup(all_posts))]
    /\ posts' = Dedup(all_posts)
    /\ pc' = IF Dedup(all_posts) = <<>> THEN "batch_return" ELSE "for_item"
    /\ posts_to_process' = Take(Dedup(all_posts), config.posts_per_session)
    /\ i' = 0
    /\ deleted_count' = 0
    /\ sel' = 0
    /\ attempted' = <<>>
    /\ slept' = <<>>
    /\ UNCHANGED <<clicks, outcome>>
    /\ UNCHANGED loopVars /\ UNCHANGED itemVars /\ UNCHANGED obsItem

\* post_selectors (lines 405-412) by position from 1: the first and the
\* last select on the data-testid attribute, so every element they return
\* carries it
Matches(selector, all_posts) ==
    \A k \in 1 .. Len(all_posts) :
        /\ selector = 1 => all_posts[k].testid = "activity-log-item"
        /\ selector = NumPostSelectors => all_posts[k].testid = "fbfeed_story"

\* the loop over post_selectors stepping over one selector
ScanFrom_SkipsOne(pool, recorded) ==
    /\ pc = "scan"
    /\ config' = config
    /\ confirm' = confirm
    /\ args' = args
    /\ UNCHANGED mainVars /\ UNCHANGED obsSession /\ UNCHANGED intVars
    /\ \/ \E all_posts \in pool \ {<<>>} :
             /\ Matches(sel, all_posts)
             /\ ScanResult(all_posts)
             /\ lists' = IF recorded THEN <<all_posts>> ELSE lists
       \/ /\ Escape
          /\ stats' = stats
          /\ lists' = lists
       \/ IF sel < NumPostSelectors
          THEN /\ sel' = sel + 2
               /\ lists' = lists
               /\ UNCHANGED <<pc, stats, clicks, outcome>>
               /\ Stay
          ELSE /\ ScanResult(<<>>)
               /\ lists' = IF recorded THEN << <<>> >> ELSE lists

\* find_posts_on_page lines 416-426: one selector per step, sel being the
\* position of the selector tried; a non-empty match ends the loop, an
\* empty one or an exception tries the next selector.  Reading an attribute of a stale
\* element of a match in the loop of lines 432-436 raises outside any
\* handler.  The candidates come from pool; with recorded they are kept in
\* lists.
ScanFrom(pool, recorded) ==
    /\ pc = "scan"
    /\ config' = config
    /\ confirm' = confirm
    /\ args' = args
    /\ UNCHANGED mainVars /\ UNCHANGED obsSession /\ UNCHANGED intVars
    /\ \/ \E all_posts \in pool \ {<<>>} :
             /\ Matches(sel, all_posts)
             /\ ScanResult(all_posts)
             /\ lists' = IF recorded THEN <<all_posts>> ELSE lists
       \/ /\ Escape
          /\ stats' = stats
          /\ lists' = lists
       \/ IF sel < NumPostSelectors
          THEN /\ sel' = sel + 1
               /\ lists' = lists
               /\ UNCHANGED <<pc, stats, clicks, outcome>>
               /\ Stay
          ELSE /\ ScanResult(<<>>)
               /\ lists' = IF recorded THEN << <<>> >> ELSE lists

Scan == ScanFrom(RawLists, FALSE)

\* candidate lists over every combination of data-testid and id
ElementLists ==
    UNION {[1 .. n -> {e \in Elements : e.head = "p"}] : n \in 0 .. MaxRaw}

\* the scan with its candidates kept
ScanRecorded == ScanFrom(ElementLists, TRUE)

\* the for statement run over every post of the scan
ForItem_Unbounded ==
    /\ pc = "for_item"
    /\ IF i < Len(posts)
       THEN /\ pc' = "scroll"
            /\ attempted' = Append(attempted, posts[i + 1])
            /\ stats0' = stats
       ELSE /\ pc' = "batch_return"
            /\ UNCHANGED <<attempted, stats0>>
    /\ UNCHANGED cfgVars
    /\ UNCHANGED <<stats, sel, clicks, posts, raised, item_gone, slept>>
    /\ UNCHANGED loopVars /\ UNCHANGED batchVars /\ UNCHANGED itemVars
    /\ UNCHANGED mainVars /\ UNCHANGED obsSession /\ UNCHANGED intVars /\ UNCHANGED outcome

\* delete_posts_batch line 625: the for statement
ForItem ==
    /\ pc = "for_item"
    /\ IF i < Len(posts_to_process)
       THEN /\ pc' = "scroll"
            /\ attempted' = Append(attempted, posts_to_process[i + 1])
            /\ stats0' = stats
       ELSE /\ pc' = "batch_return"
            /\ UNCHANGED <<attempted, stats0>>
    /\ UNCHANGED cfgVars
    /\ UNCHANGED <<stats, sel, clicks, posts, raised, item_gone, slept>>
    /\ UNCHANGED loopVars /\ UNCHANGED batchVars /\ UNCHANGED itemVars
    /\ UNCHANGED mainVars /\ UNCHANGED obsSession /\ UNCHANGED intVars /\ UNCHANGED outcome

\* every attempt counted by the batch, whatever it returned
AfterAttempt_CountsAll ==
    /\ pc = "attempt_done"
    /\ deleted_count' = deleted_count + 1
    /\ pc' = IF ret THEN "delete_pause" ELSE "next_item"
    /\ menu_button' = "None"
    /\ delete_option' = "None"
    /\ confirm_button' = "None"
    /\ ret' = ret
    /\ clicks' = <<>>
    /\ raised' = FALSE
    /\ item_gone' = FALSE
    /\ stats0' = stats
    /\ UNCHANGED cfgVars /\ UNCHANGED <<stats, sel, posts_to_process, i>>
    /\ UNCHANGED loopVars /\ UNCHANGED obsBatch
    /\ UNCHANGED mainVars /\ UNCHANGED obsSession /\ UNCHANGED intVars /\ UNCHANGED outcome

\* lines 628-629: count the attempt when it returned True; the locals of
\* the attempt are gone
AfterAttempt ==
    /\ pc = "attempt_done"
    /\ IF ret
       THEN deleted_count' = deleted_count + 1 /\ pc' = "delete_pause"
       ELSE deleted_count' = deleted_count /\ pc' = "next_item"
    /\ menu_button' = "None"
    /\ delete_option' = "None"
    /\ confirm_button' = "None"
    /\ ret' = ret
    /\ clicks' = <<>>
    /\ raised' = FALSE
    /\ item_gone' = FALSE
    /\ stats0' = stats
    /\ UNCHANGED cfgVars /\ UNCHANGED <<stats, sel, posts_to_process, i>>
    /\ UNCHANGED loopVars /\ UNCHANGED obsBatch
    /\ UNCHANGED mainVars /\ UNCHANGED obsSession /\ UNCHANGED intVars /\ UNCHANGED outcome

\* the loop going on without the sleep of line 640
DeletePause_NoSleep ==
    /\ pc = "delete_pause"
    /\ pc' = "next_item"
    /\ slept' = slept
    /\ UNCHANGED cfgVars /\ UNCHANGED <<stats, sel, clicks, posts, attempted>>
    /\ UNCHANGED loopVars /\ UNCHANGED batchVars /\ UNCHANGED itemVars
    /\ UNCHANGED obsItem
    /\ UNCHANGED mainVars /\ UNCHANGED obsSession /\ UNCHANGED intVars /\ UNCHANGED outcome

\* lines 631-640: the pause after a deletion
DeletePause ==
    /\ pc = "delete_pause"
    /\ pc' = "next_item"
    /\ \E delay \in uniform(config.min_delete_delay, config.max_delete_delay) :
         slept' = Append(slept, delay)
    /\ UNCHANGED cfgVars /\ UNCHANGED <<stats, sel, clicks, posts, attempted>>
    /\ UNCHANGED loopVars /\ UNCHANGED batchVars /\ UNCHANGED itemVars
    /\ UNCHANGED obsItem
    /\ UNCHANGED mainVars /\ UNCHANGED obsSession /\ UNCHANGED intVars /\ UNCHANGED outcome

\* the for statement stepping over one element
NextItem_SkipsOne ==
    /\ pc = "next_item"
    /\ pc' = "for_item"
    /\ i' = i + 2
    /\ ret' = FALSE
    /\ slept' = <<>>
    /\ UNCHANGED cfgVars
    /\ UNCHANGED <<stats, sel, clicks, posts_to_process, deleted_count>>
    /\ UNCHANGED <<menu_button, delete_option, confirm_button>>
    /\ UNCHANGED loopVars /\ UNCHANGED <<posts, attempted>> /\ UNCHANGED obsItem
    /\ UNCHANGED mainVars /\ UNCHANGED obsSession /\ UNCHANGED intVars /\ UNCHANGED outcome

\* lines 642-649 and the next iteration of the for statement
NextItem ==
    /\ pc = "next_item"
    /\ pc' = "for_item"
    /\ i' = i + 1
    /\ ret' = FALSE
    /\ slept' = <<>>
    /\ UNCHANGED cfgVars
    /\ UNCHANGED <<stats, sel, clicks, posts_to_process, deleted_count>>
    /\ UNCHANGED <<menu_button, delete_option, confirm_button>>
    /\ UNCHANGED loopVars /\ UNCHANGED <<posts, attempted>> /\ UNCHANGED obsItem
    /\ UNCHANGED mainVars /\ UNCHANGED obsSession /\ UNCHANGED intVars /\ UNCHANGED outcome

\* the session ended without the update of sessions_completed (line 694)
BatchReturn_NoCount ==
    /\ pc = "batch_return"
    /\ session_deleted' = deleted_count
    /\ stats' = stats
    /\ zero_session' = IF deleted_count = 0 /\ zero_session = 0
                       THEN session + 1 ELSE zero_session
    /\ IF session < config.max_sessions - 1
       THEN /\ pc' = "cooldown"
            /\ remaining' = IF config.verbose THEN config.session_delay ELSE 0
       ELSE /\ pc' = "continue_check"
            /\ remaining' = remaining
    /\ posts_to_process' = <<>>
    /\ i' = 0
    /\ deleted_count' = 0
    /\ batches_deleted' = batches_deleted + deleted_count
    /\ posts' = <<>>
    /\ attempted' = <<>>
    /\ stats0' = stats'
    /\ UNCHANGED cfgVars
    /\ UNCHANGED <<sel, clicks, session, sessions_started, refreshes, raised, item_gone,
                   slept>>
    /\ UNCHANGED itemVars
    /\ UNCHANGED mainVars /\ UNCHANGED intVars /\ UNCHANGED outcome

\* delete_posts_batch returns (lines 618, 652); clean_profile_gradually
\* lines 691-697 count the session and decide on the pause
BatchReturn ==
    /\ pc = "batch_return"
    /\ session_deleted' = deleted_count
    /\ stats' = Bump(stats, "sessions_completed")
    /\ zero_session' = IF deleted_count = 0 /\ zero_session = 0
                       THEN session + 1 ELSE zero_session
    /\ IF session < config.max_sessions - 1
       THEN /\ pc' = "cooldown"
            /\ remaining' = IF config.verbose THEN config.session_delay ELSE 0
       ELSE /\ pc' = "continue_check"
            /\ remaining' = remaining
    /\ posts_to_process' = <<>>
    /\ i' = 0
    /\ deleted_count' = 0
    /\ batches_deleted' = batches_deleted + deleted_count
    /\ posts' = <<>>
    /\ attempted' = <<>>
    /\ stats0' = stats'
    /\ UNCHANGED cfgVars
    /\ UNCHANGED <<sel, clicks, session, sessions_started, refreshes, raised, item_gone,
                   slept>>
    /\ UNCHANGED itemVars
    /\ UNCHANGED mainVars /\ UNCHANGED intVars /\ UNCHANGED outcome

\* the pause between sessions without any sleep
Cooldown_NoSleep ==
    /\ pc = "cooldown"
    /\ remaining' = 0
    /\ slept' = slept
    /\ pc' = "continue_check"
    /\ UNCHANGED cfgVars
    /\ UNCHANGED <<stats, sel, clicks, session, session_deleted>>
    /\ UNCHANGED batchVars /\ UNCHANGED itemVars
    /\ UNCHANGED <<posts, attempted>> /\ UNCHANGED obsItem
    /\ UNCHANGED mainVars /\ UNCHANGED obsSession /\ UNCHANGED intVars /\ UNCHANGED outcome

\* lines 698-711: the countdown sleeps one second per step when verbose;
\* otherwise one sleep of session_delay seconds
Cooldown ==
    /\ pc = "cooldown"
    /\ IF config.verbose
       THEN IF remaining > 0
            THEN /\ remaining' = remaining - 1
                 /\ slept' = Append(slept, 1)
                 /\ pc' = pc
            ELSE /\ remaining' = 0
                 /\ slept' = slept
                 /\ pc' = "continue_check"
       ELSE /\ remaining' = 0
            /\ slept' = Append(slept, config.session_delay)
            /\ pc' = "continue_check"
    /\ UNCHANGED cfgVars
    /\ UNCHANGED <<stats, sel, clicks, session, session_deleted>>
    /\ UNCHANGED batchVars /\ UNCHANGED itemVars
    /\ UNCHANGED <<posts, attempted>> /\ UNCHANGED obsItem
    /\ UNCHANGED mainVars /\ UNCHANGED obsSession /\ UNCHANGED intVars /\ UNCHANGED outcome

\* the session loop without the break of line 716
ContinueCheck_NoBreak ==
    /\ pc = "continue_check"
    /\ pc' = "session_head" /\ session' = session + 1
    /\ slept' = <<>>
    /\ UNCHANGED cfgVars
    /\ UNCHANGED <<stats, sel, clicks, session_deleted, remaining>>
    /\ UNCHANGED batchVars /\ UNCHANGED itemVars
    /\ UNCHANGED <<posts, attempted>> /\ UNCHANGED obsItem
    /\ UNCHANGED mainVars /\ UNCHANGED obsSession /\ UNCHANGED intVars /\ UNCHANGED outcome

\* lines 713-716 and the step of the for statement
ContinueCheck ==
    /\ pc = "continue_check"
    /\ IF session_deleted = 0
       THEN pc' = "run_return" /\ session' = session
       ELSE pc' = "session_head" /\ session' = session + 1
    /\ slept' = <<>>
    /\ UNCHANGED cfgVars
    /\ UNCHANGED <<stats, sel, clicks, session_deleted, remaining>>
    /\ UNCHANGED batchVars /\ UNCHANGED itemVars
    /\ UNCHANGED <<posts, attempted>> /\ UNCHANGED obsItem
    /\ UNCHANGED mainVars /\ UNCHANGED obsSession /\ UNCHANGED intVars /\ UNCHANGED outcome

-----------------------------------------------------------------------------
\* attempt_post_deletion

\* what no step of an attempt changes
AttemptFrame ==
    /\ UNCHANGED cfgVars /\ UNCHANGED <<stats0>>
    /\ UNCHANGED loopVars /\ UNCHANGED batchVars /\ UNCHANGED obsBatch
    /\ UNCHANGED mainVars /\ UNCHANGED obsSession /\ UNCHANGED intVars /\ UNCHANGED outcome

\* the attempt without its handler: the exception reaches main
Errored_Propagates ==
    /\ stats' = stats
    /\ ret' = FALSE
    /\ raised' = TRUE
    /\ item_gone' = item_gone
    /\ pc' = "except_exception"
    /\ sel' = 0

\* lines 558-561: except Exception: count the error, return False
Errored ==
    /\ stats' = Bump(stats, "errors_encountered")
    /\ ret' = FALSE
    /\ raised' = TRUE
    /\ item_gone' = item_gone
    /\ pc' = "attempt_done"
    /\ sel' = 0

\* lines 487-490, 516-519, 553-556: a missing target skips the item
Skipped ==
    /\ stats' = Bump(stats, "posts_skipped")
    /\ ret' = FALSE
    /\ raised' = raised
    /\ item_gone' = item_gone
    /\ pc' = "attempt_done"
    /\ sel' = 0

\* the deletion counted but reported as a failure
Deleted_ReturnsFalse ==
    /\ stats' = Bump(stats, "posts_deleted")
    /\ ret' = FALSE
    /\ raised' = raised
    /\ item_gone' = item_gone
    /\ pc' = "attempt_done"
    /\ sel' = 0

\* lines 467-468 and 550-552: count the deletion, return True
Deleted ==
    /\ stats' = Bump(stats, "posts_deleted")
    /\ ret' = TRUE
    /\ raised' = raised
    /\ item_gone' = item_gone
    /\ pc' = "attempt_done"
    /\ sel' = 0

\* the attempt goes on with the step at position p, selector index s
Goto(p, s) ==
    /\ pc' = p
    /\ sel' = s
    /\ UNCHANGED <<stats, ret, raised, item_gone>>

\* lines 456-463: scroll the element into view (execute_script may raise),
\* pause, extract_post_info (which catches its own exceptions)
Scroll ==
    /\ pc = "scroll"
    /\ \/ Goto("whatif_check", 0)
       \/ Errored
    /\ UNCHANGED <<clicks, menu_button, delete_option, confirm_button>>
    /\ AttemptFrame

\* the attempt without the whatif branch
WhatifCheck_Ignored ==
    /\ pc = "whatif_check"
    /\ Goto("menu_lookup", 1)
    /\ UNCHANGED <<clicks, menu_button, delete_option, confirm_button>>
    /\ AttemptFrame

\* lines 465-468: whatif counts the item as deleted and returns
WhatifCheck ==
    /\ pc = "whatif_check"
    /\ IF config.whatif
       THEN Deleted
       ELSE Goto("menu_lookup", 1)
    /\ UNCHANGED <<clicks, menu_button, delete_option, confirm_button>>
    /\ AttemptFrame

\* lines 479-485: one menu selector per step, inside the post element;
\* NoSuchElementException tries the next one, any other exception is caught
\* by the handler of the attempt
MenuLookup ==
    /\ pc = "menu_lookup"
    /\ \/ /\ menu_button' = "elem"
          /\ Goto("menu_check", 0)
       \/ /\ menu_button' = menu_button
          /\ IF sel < NumMenuSelectors
             THEN Goto("menu_lookup", sel + 1)
             ELSE Goto("menu_check", 0)
       \/ /\ menu_button' = menu_button
          /\ Errored
    /\ UNCHANGED <<clicks, delete_option, confirm_button>>
    /\ AttemptFrame

\* the menu clicked without the test of line 487
MenuClick_NoCheck ==
    /\ pc = "menu_check"
    /\ clicks' = Append(clicks, "menu")
    /\ \/ Goto("delete_lookup", 1)
       \/ Errored
    /\ UNCHANGED <<menu_button, delete_option, confirm_button>>
    /\ AttemptFrame

\* lines 487-495: no menu button skips the item; otherwise the menu is
\* clicked (the click may raise)
MenuClick ==
    /\ pc = "menu_check"
    /\ IF menu_button = "None"
       THEN Skipped /\ clicks' = clicks
       ELSE /\ clicks' = Append(clicks, "menu")
            /\ \/ Goto("delete_lookup", 1)
               \/ Errored
    /\ UNCHANGED <<menu_button, delete_option, confirm_button>>
    /\ AttemptFrame

\* lines 506-514: one delete selector per step; TimeoutException tries the
\* next one
DeleteLookup ==
    /\ pc = "delete_lookup"
    /\ \/ /\ delete_option' = "elem"
          /\ Goto("delete_check", 0)
       \/ /\ delete_option' = delete_option
          /\ IF sel < NumDeleteSelectors
             THEN Goto("delete_lookup", sel + 1)
             ELSE Goto("delete_check", 0)
       \/ /\ delete_option' = delete_option
          /\ Errored
    /\ UNCHANGED <<clicks, menu_button, confirm_button>>
    /\ AttemptFrame

\* the delete click made without looking at delete_option
DeleteClick_NoCheck ==
    /\ pc = "delete_check"
    /\ clicks' = Append(clicks, "delete")
    /\ \/ Goto("confirm_lookup", 1)
       \/ Errored
    /\ UNCHANGED <<menu_button, delete_option, confirm_button>>
    /\ AttemptFrame

\* lines 516-524: no delete option skips the item; otherwise it is clicked
DeleteClick ==
    /\ pc = "delete_check"
    /\ IF delete_option = "None"
       THEN Skipped /\ clicks' = clicks
       ELSE /\ clicks' = Append(clicks, "delete")
            /\ \/ Goto("confirm_lookup", 1)
               \/ Errored
    /\ UNCHANGED <<menu_button, delete_option, confirm_button>>
    /\ AttemptFrame

\* lines 535-543: one confirm selector per step
ConfirmLookup ==
    /\ pc = "confirm_lookup"
    /\ \/ /\ confirm_button' = "elem"
          /\ Goto("confirm_check", 0)
       \/ /\ confirm_button' = confirm_button
          /\ IF sel < NumConfirmSelectors
             THEN Goto("confirm_lookup", sel + 1)
             ELSE Goto("confirm_check", 0)
       \/ /\ confirm_button' = confirm_button
          /\ Errored
    /\ UNCHANGED <<clicks, menu_button, delete_option>>
    /\ AttemptFrame

\* lines 553-556: "Confirm button not found": the item is counted as
\* skipped; whether the page still shows the item is not looked at
SkippedUnconfirmed ==
    /\ stats' = Bump(stats, "posts_skipped")
    /\ ret' = FALSE
    /\ raised' = raised
    /\ item_gone' \in BOOLEAN
    /\ pc' = "attempt_done"
    /\ sel' = 0

\* the deletion counted whether or not a confirm button was found
ConfirmClick_Optimistic ==
    /\ pc = "confirm_check"
    /\ IF confirm_button = "None"
       THEN Deleted /\ clicks' = clicks
       ELSE /\ clicks' = Append(clicks, "confirm")
            /\ \/ Deleted
               \/ Errored
    /\ UNCHANGED <<menu_button, delete_option, confirm_button>>
    /\ AttemptFrame

\* lines 545-556: the confirm button is clicked and the deletion counted;
\* without a confirm button the item is skipped
ConfirmClick ==
    /\ pc = "confirm_check"
    /\ IF confirm_button = "None"
       THEN SkippedUnconfirmed /\ clicks' = clicks
       ELSE /\ clicks' = Append(clicks, "confirm")
            /\ \/ Deleted
               \/ Errored
    /\ UNCHANGED <<menu_button, delete_option, confirm_button>>
    /\ AttemptFrame

-----------------------------------------------------------------------------
\* main(): return, handlers, finally

RunPcs == {"construct", "setup_driver", "login", "cookie", "email",
           "login_button", "navigate", "session_head", "scan", "for_item",
           "scroll", "whatif_check", "menu_lookup", "menu_check",
           "delete_lookup", "delete_check", "confirm_lookup", "confirm_check",
           "attempt_done", "delete_pause", "next_item", "batch_return",
           "verify_login",
           "cooldown", "continue_check", "run_return"}

\* the interrupt, named after the sleep it arrives in: the pause after a
\* deletion (line 640) or the pause between sessions (lines 706, 711)
InterruptAt(p) ==
    IF p = "delete_pause" THEN "interrupt_in_pause"
    ELSE IF p = "cooldown" THEN "interrupt_in_cooldown"
    ELSE "interrupt"

\* an interrupt in the pause after a deletion caught like an engine
\* exception: counted as an error, and the batch goes on
KeyboardInterrupt_Swallowed ==
    /\ pc \in RunPcs
    /\ interrupted' = TRUE
    /\ stats_at_interrupt' = stats
    /\ outcome' = InterruptAt(pc)
    /\ IF pc = "delete_pause"
       THEN /\ pc' = "next_item"
            /\ stats' = Bump(stats, "errors_encountered")
            /\ UNCHANGED <<sel, clicks>>
            /\ Stay
       ELSE /\ pc' = "except_interrupt"
            /\ stats' = stats
            /\ Unwind
    /\ UNCHANGED cfgVars
    /\ UNCHANGED mainVars /\ UNCHANGED obsSession

\* KeyboardInterrupt is not an Exception: no handler below main catches it
\* (lines 290, 329, 392, 424, 558, 596 all read "except Exception" or a
\* selenium exception; the try of lines 644-649 encloses only "pass")
KeyboardInterrupt ==
    /\ pc \in RunPcs
    /\ pc' = "except_interrupt"
    /\ interrupted' = TRUE
    /\ stats_at_interrupt' = stats
    /\ outcome' = InterruptAt(pc)
    /\ Unwind
    /\ UNCHANGED cfgVars /\ UNCHANGED stats
    /\ UNCHANGED mainVars /\ UNCHANGED obsSession

\* lines 666, 671, 719 and 1081-1086: the statistics are returned, printed,
\* and main returns 0
RunReturn ==
    /\ pc = "run_return"
    /\ printed' = Append(printed, get_final_stats(stats))
    /\ exit_code' = 0
    /\ pc' = "finally"
    /\ outcome' = IF outcome = "" THEN "completed" ELSE outcome
    /\ Unwind
    /\ UNCHANGED cfgVars
    /\ UNCHANGED <<stats, cleaner, browser_created, quit_calls>>
    /\ UNCHANGED obsSession /\ UNCHANGED intVars

\* the interrupt handled like any other exception
ExceptKeyboardInterrupt_Returns1 ==
    /\ pc = "except_interrupt"
    /\ printed' = printed
    /\ exit_code' = 1
    /\ pc' = "finally"
    /\ UNCHANGED cfgVars
    /\ UNCHANGED <<stats, sel, clicks, cleaner, browser_created, quit_calls>>
    /\ Stay /\ UNCHANGED obsSession /\ UNCHANGED intVars /\ UNCHANGED outcome

\* lines 1088-1094: the partial report needs a cleaner
ExceptKeyboardInterrupt ==
    /\ pc = "except_interrupt"
    /\ printed' = IF cleaner # "None"
                  THEN Append(printed, get_final_stats(stats))
                  ELSE printed
    /\ exit_code' = 130
    /\ pc' = "finally"
    /\ UNCHANGED cfgVars
    /\ UNCHANGED <<stats, sel, clicks, cleaner, browser_created, quit_calls>>
    /\ Stay /\ UNCHANGED obsSession /\ UNCHANGED intVars /\ UNCHANGED outcome

\* lines 1096-1101
ExceptException ==
    /\ pc = "except_exception"
    /\ exit_code' = 1
    /\ pc' = "finally"
    /\ UNCHANGED cfgVars
    /\ UNCHANGED <<stats, sel, clicks, printed, cleaner, browser_created,
                   quit_calls>>
    /\ Stay /\ UNCHANGED obsSession /\ UNCHANGED intVars /\ UNCHANGED outcome

\* FacebookCleaner.close lines 779-784: quit the driver when there is one
close ==
    quit_calls' = IF browser_created THEN quit_calls + 1 ELSE quit_calls

\* lines 1103-1105: close only when main's cleaner was assigned
Finally ==
    /\ pc = "finally"
    /\ IF cleaner # "None" THEN close ELSE quit_calls' = quit_calls
    /\ pc' = "exited"
    /\ UNCHANGED cfgVars
    /\ UNCHANGED <<stats, sel, clicks, printed, exit_code, cleaner,
                   browser_created>>
    /\ Stay /\ UNCHANGED obsSession /\ UNCHANGED intVars /\ UNCHANGED outcome

-----------------------------------------------------------------------------
Next ==
    \/ ValidateConfig \/ ConfirmPrompt \/ CreateDriver \/ FinishSetup
    \/ LoginOpen \/ CookieBanner \/ LoginFields \/ LoginButton \/ VerifyLogin
    \/ Navigate
    \/ SessionHead \/ Scan \/ ForItem \/ AfterAttempt \/ DeletePause
    \/ NextItem \/ BatchReturn \/ Cooldown \/ ContinueCheck
    \/ Scroll \/ WhatifCheck \/ MenuLookup \/ MenuClick \/ DeleteLookup
    \/ DeleteClick \/ ConfirmLookup \/ ConfirmClick
    \/ KeyboardInterrupt \/ RunReturn \/ ExceptKeyboardInterrupt
    \/ ExceptException \/ Finally

Spec == Init /\ [][Next]_vars

\* the run as one thread of control, with the largest session limit and
\* the verbose countdown, in both modes: main calls one function after the
\* other, and every call and every sleep returns or raises, so a step that
\* can be taken is taken
LiveConfigs ==
    {c \in RunConfigs :
        /\ c.verbose /\ c.session_delay = MaxSessionDelay
        /\ c.max_sessions = MaxSessions}

InitLive == \E c \in LiveConfigs : InitWith(c)

SpecLive == InitLive /\ [][Next]_vars /\ WF_vars(Next)

\* main() up to the construction of the cleaner, over every configuration
\* of ConfigSpace
InitConfig == \E c \in ConfigSpace : InitWith(c)

NextConfig == ValidateConfig \/ ConfirmPrompt

SpecConfig == InitConfig /\ [][NextConfig]_vars

\* the deduplication loop of find_posts_on_page (lines 428-436) run on a
\* candidate list and then on its own result
DedupStep ==
    /\ pc \in {"dedup", "dedup_again"}
    /\ pc' = IF pc = "dedup" THEN "dedup_again" ELSE "dedup_done"
    /\ lists' = Append(lists, UniquePosts(lists[Len(lists)]))
    /\ UNCHANGED <<config, confirm, args, stats, sel, clicks, outcome>>
    /\ Stay /\ UNCHANGED mainVars /\ UNCHANGED obsSession /\ UNCHANGED intVars

\* one accepted configuration; the loop reads none of its fields
DedupConfig ==
    [email |-> "user@example.com", password |-> "secret", whatif |-> TRUE,
     verbose |-> FALSE, max_sessions |-> MaxSessions,
     posts_per_session |-> MaxPostsPerSession,
     session_delay |-> MaxSessionDelay,
     min_action_delay |-> DefaultTiming.min_action_delay,
     max_action_delay |-> DefaultTiming.max_action_delay,
     min_delete_delay |-> DefaultTiming.min_delete_delay,
     max_delete_delay |-> DefaultTiming.max_delete_delay]

InitDedup ==
    \E all_posts \in DedupInputs :
        InitState(DedupConfig, "dedup", <<all_posts>>)

NextDedup == DedupStep

SpecDedup == InitDedup /\ [][NextDedup]_vars

\* runs of two sessions in real mode whose scans keep their candidates
ScanConfigs ==
    {c \in RunConfigs :
        /\ ~c.whatif /\ ~c.verbose
        /\ c.max_sessions = 2}

InitScan == \E c \in ScanConfigs : InitWith(c)

NextScan ==
    \/ ValidateConfig \/ ConfirmPrompt \/ CreateDriver \/ FinishSetup
    \/ LoginOpen \/ CookieBanner \/ LoginFields \/ LoginButton \/ VerifyLogin
    \/ Navigate
    \/ SessionHead \/ ScanRecorded \/ ForItem \/ AfterAttempt \/ DeletePause
    \/ NextItem \/ BatchReturn \/ Cooldown \/ ContinueCheck
    \/ Scroll \/ WhatifCheck \/ MenuLookup \/ MenuClick \/ DeleteLookup
    \/ DeleteClick \/ ConfirmLookup \/ ConfirmClick
    \/ KeyboardInterrupt \/ RunReturn \/ ExceptKeyboardInterrupt
    \/ ExceptException \/ Finally

SpecScan == InitScan /\ [][NextScan]_vars

\* parse_arguments: the defaults of the numeric options
DefaultSessions == 5
DefaultPostsPerSession == 10
DefaultSessionDelay == 300
DefaultPageTimeout == 30
DefaultMinDelay == 1
DefaultMaxDelay == 3

\* the options given on the command line: "None" is a string option not
\* given, <<>> a numeric option not given
FlagSpace ==
    [email : {"None", "", "cli@example.com"},
     password : {"None", "clipw"},
     sessions : {<<>>, <<4>>},
     posts_per_session : {<<>>, <<4>>},
     session_delay : {<<>>, <<4>>},
     page_timeout : {<<>>, <<4>>},
     min_delay : {<<>>, <<4>>},
     max_delay : {<<>>, <<4>>},
     headless : BOOLEAN,
     user_agent : {"None", "cli-agent"},
     whatif : BOOLEAN,
     verbose : BOOLEAN]

\* parse_arguments (lines 896-941): the Namespace for the options given
parse_arguments(flags) ==
    [email |-> flags.email,
     password |-> flags.password,
     sessions |-> IF flags.sessions = <<>> THEN DefaultSessions
                  ELSE flags.sessions[1],
     posts_per_session |-> IF flags.posts_per_session = <<>>
                           THEN DefaultPostsPerSession
                           ELSE flags.posts_per_session[1],
     session_delay |-> IF flags.session_delay = <<>>
                       THEN DefaultSessionDelay ELSE flags.session_delay[1],
     page_timeout |-> IF flags.page_timeout = <<>>
                      THEN DefaultPageTimeout ELSE flags.page_timeout[1],
     min_delay |-> IF flags.min_delay = <<>> THEN DefaultMinDelay
                   ELSE flags.min_delay[1],
     max_delay |-> IF flags.max_delay = <<>> THEN DefaultMaxDelay
                   ELSE flags.max_delay[1],
     headless |-> flags.headless,
     user_agent |-> flags.user_agent,
     whatif |-> flags.whatif,
     verbose |-> flags.verbose]

\* create_default_config, without the entries nothing reads
create_default_config ==
    [credentials |-> [email |-> "", password |-> ""],
     cleaning |-> [posts_per_session |-> 10, max_sessions |-> 5],
     timing |-> [session_delay |-> 300, page_timeout |-> 30,
                 min_action_delay |-> 1, max_action_delay |-> 3,
                 min_delete_delay |-> 3, max_delete_delay |-> 7],
     browser |-> [headless |-> FALSE, user_agent |-> "Mozilla/5.0"],
     execution |-> [whatif |-> FALSE, verbose |-> FALSE]]

\* configurations a file can hold: numbers that are neither defaults nor
\* values of the command line
FileConfigs ==
    {[credentials |-> [email |-> e, password |-> "filepw"],
      cleaning |-> [posts_per_session |-> c, max_sessions |-> c],
      timing |-> [session_delay |-> t, page_timeout |-> t,
                  min_action_delay |-> t, max_action_delay |-> t,
                  min_delete_delay |-> t, max_delete_delay |-> t],
      browser |-> [headless |-> h, user_agent |-> "file-agent"],
      execution |-> [whatif |-> TRUE, verbose |-> TRUE]] :
        e \in {"", "file@example.com"}, c \in {2, 8}, t \in {2, 8},
        h \in BOOLEAN}

\* the numeric options taken from the command line only where they differ
\* from their defaults
merge_config_with_args_FileWins(base_config, a) ==
    [base_config EXCEPT
        !.credentials.email = IF a.email \notin {"None", ""}
                              THEN a.email ELSE @,
        !.credentials.password = IF a.password \notin {"None", ""}
                                 THEN a.password ELSE @,
        !.cleaning.max_sessions = IF a.sessions # DefaultSessions
                                  THEN a.sessions ELSE @,
        !.cleaning.posts_per_session =
            IF a.posts_per_session # DefaultPostsPerSession
            THEN a.posts_per_session ELSE @,
        !.timing.session_delay = IF a.session_delay # DefaultSessionDelay
                                 THEN a.session_delay ELSE @,
        !.timing.page_timeout = IF a.page_timeout # DefaultPageTimeout
                                THEN a.page_timeout ELSE @,
        !.timing.min_action_delay = IF a.min_delay # DefaultMinDelay
                                    THEN a.min_delay ELSE @,
        !.timing.max_action_delay = IF a.max_delay # DefaultMaxDelay
                                    THEN a.max_delay ELSE @,
        !.browser.headless = IF a.headless THEN TRUE ELSE @,
        !.browser.user_agent = IF a.user_agent \notin {"None", ""}
                               THEN a.user_agent ELSE @,
        !.execution.whatif = a.whatif,
        !.execution.verbose = a.verbose]

\* merge_config_with_args (lines 944-983); a is its parameter args
merge_config_with_args(base_config, a) ==
    [base_config EXCEPT
        !.credentials.email = IF a.email \notin {"None", ""}
                              THEN a.email ELSE @,
        !.credentials.password = IF a.password \notin {"None", ""}
                                 THEN a.password ELSE @,
        !.cleaning.max_sessions = a.sessions,
        !.cleaning.posts_per_session = a.posts_per_session,
        !.timing.session_delay = a.session_delay,
        !.timing.page_timeout = a.page_timeout,
        !.timing.min_action_delay = a.min_delay,
        !.timing.max_action_delay = a.max_delay,
        !.browser.headless = IF a.headless THEN TRUE ELSE @,
        !.browser.user_agent = IF a.user_agent \notin {"None", ""}
                               THEN a.user_agent ELSE @,
        !.execution.whatif = a.whatif,
        !.execution.verbose = a.verbose]

\* main line 1042
MergeStep ==
    /\ pc = "merge"
    /\ pc' = "merged"
    /\ config' = merge_config_with_args(config, args)
    /\ UNCHANGED <<lists, confirm, args, stats, sel, clicks, outcome>>
    /\ Stay /\ UNCHANGED mainVars /\ UNCHANGED obsSession /\ UNCHANGED intVars

\* main lines 1026-1042: the command line is parsed, the configuration is
\* the default one or the content of a file, and the two are merged
InitMerge ==
    \E flags \in FlagSpace :
        \E base_config \in FileConfigs \cup {create_default_config} :
            InitArgs(base_config, "merge", <<>>, parse_arguments(flags))

NextMerge == MergeStep

SpecMerge == InitMerge /\ [][NextMerge]_vars

\* runs of two sessions of one item under every accepted combination of the
\* four delay bounds
PacingConfigs ==
    {c \in ConfigSpace :
        /\ validate_config(c)
        /\ c.email # "" /\ c.password # ""
        /\ ~c.verbose /\ c.session_delay = MaxSessionDelay
        /\ c.max_sessions = 2 /\ c.posts_per_session = 1}

InitPacing == \E c \in PacingConfigs : InitWith(c)

SpecPacing == InitPacing /\ [][Next]_vars

\* main() from its first statement: the configurations with the default
\* timing, rejected ones included
MainConfigs ==
    {c \in ConfigSpace :
        /\ ~c.verbose /\ c.session_delay = MaxSessionDelay
        /\ c.min_action_delay = DefaultTiming.min_action_delay
        /\ c.max_action_delay = DefaultTiming.max_action_delay
        /\ c.min_delete_delay = DefaultTiming.min_delete_delay
        /\ c.max_delete_delay = DefaultTiming.max_delete_delay}

InitMain == \E c \in MainConfigs : InitState(c, "start", <<>>)

NextMain == LoadConfig \/ Next

SpecMain == InitMain /\ [][NextMain]_vars

-----------------------------------------------------------------------------
\* Properties

AttemptsCounted ==
    stats.posts_deleted + stats.posts_skipped + stats.errors_encountered

\* the outcome of the item attempt that has just ended, read off the counters
OutcomeDeleted ==
    /\ stats.posts_deleted = stats0.posts_deleted + 1
    /\ stats.posts_skipped = stats0.posts_skipped
    /\ stats.errors_encountered = stats0.errors_encountered
    /\ ret = TRUE

OutcomeSkipped ==
    /\ stats.posts_deleted = stats0.posts_deleted
    /\ stats.posts_skipped = stats0.posts_skipped + 1
    /\ stats.errors_encountered = stats0.errors_encountered
    /\ ret = FALSE

OutcomeErrored ==
    /\ stats.posts_deleted = stats0.posts_deleted
    /\ stats.posts_skipped = stats0.posts_skipped
    /\ stats.errors_encountered = stats0.errors_encountered + 1
    /\ ret = FALSE

\* C1: in every state, also between a scan and the end of an attempt and
\* after an interrupt, posts_deleted + posts_skipped + errors_encountered
\* is at most posts_found
C1_CountsWithinFound == AttemptsCounted <= stats.posts_found

C1_Witness ==
    /\ pc = "exited" /\ interrupted
    /\ AttemptsCounted >= 2
    /\ AttemptsCounted < stats.posts_found

\* C2: once the batch of session k has returned 0, no further session is
\* started and sessions_completed stays k
C2_StopAfterZeroSession ==
    zero_session # 0 =>
        /\ sessions_started = zero_session
        /\ stats.sessions_completed = zero_session

C2_Witness ==
    /\ config.max_sessions = 3
    /\ zero_session = 2
    /\ pc = "exited" /\ exit_code = 0
    /\ stats.sessions_completed = 2

\* C3: the items handed to an attempt are always a prefix of the
\* deduplicated scan, and when the batch returns they are its first
\* min(posts_per_session, len) items
C3_AttemptsCapped ==
    /\ Len(attempted) <= Min(config.posts_per_session, Len(posts))
    /\ attempted = SubSeq(posts, 1, Len(attempted))
    /\ pc = "batch_return" =>
         Len(attempted) = Min(config.posts_per_session, Len(posts))

C3_Witness ==
    /\ pc = "batch_return"
    /\ Len(posts) > config.posts_per_session
    /\ Len(attempted) = config.posts_per_session
    /\ config.posts_per_session >= 1

\* C4: in whatif mode no click or type primitive is invoked in any state of
\* the run, and an attempt that reached the whatif branch has added
\* exactly one to posts_deleted
C4_WhatifNeverClicks ==
    config.whatif =>
        /\ clicks = <<>>
        /\ (pc = "attempt_done" /\ ~raised) =>
             stats.posts_deleted = stats0.posts_deleted + 1

C4_Witness ==
    /\ config.whatif
    /\ pc = "attempt_done" /\ ~raised
    /\ stats.posts_deleted = 2

\* C5 as stated: in whatif mode every attempt that ends has the outcome
\* Deleted
C5_WhatifAlwaysDeleted ==
    (config.whatif /\ pc = "attempt_done") => OutcomeDeleted

\* C5 as amended: in whatif mode an attempt never ends as Skipped and never
\* clicks; it ends as Deleted unless the scroll into view raised, and then
\* it ends as Errored
C5_WhatifDeletedOrErrored ==
    (config.whatif /\ pc = "attempt_done") =>
        /\ clicks = <<>>
        /\ menu_button = "None"
        /\ IF raised THEN OutcomeErrored ELSE OutcomeDeleted

C5_Witness ==
    /\ config.whatif /\ pc = "attempt_done"
    /\ raised /\ OutcomeErrored

\* C6: in real mode an attempt in which no menu selector matched ends as
\* Skipped, returns False, and has clicked nothing
C6_NoMenuSkips ==
    (~config.whatif /\ pc = "attempt_done" /\ menu_button = "None" /\ ~raised)
        => OutcomeSkipped /\ clicks = <<>>

C6_Witness ==
    /\ ~config.whatif /\ pc = "attempt_done"
    /\ menu_button = "None" /\ ~raised
    /\ OutcomeSkipped

\* C7: after a KeyboardInterrupt raised once the cleaner exists, the report
\* printed last carries the counters as they were when it was raised
C7_InterruptKeepsCounts ==
    (pc \in {"finally", "exited"} /\ interrupted /\ cleaner # "None") =>
        /\ Len(printed) = 1
        /\ printed[1] = stats_at_interrupt
        /\ stats = stats_at_interrupt

C7_Witness ==
    /\ pc = "exited" /\ interrupted /\ cleaner # "None"
    /\ exit_code = 130
    /\ stats_at_interrupt.posts_deleted >= 1
    /\ stats_at_interrupt.posts_skipped >= 1
    /\ stats_at_interrupt.sessions_completed >= 1

\* C8 as stated: a browser session that was created has been quit exactly
\* once when the process ends
C8_QuitExactlyOnce ==
    (pc = "exited" /\ browser_created) => quit_calls = 1

\* the constraints C9 lists
C9_Constraints(c) ==
    /\ c.email # ""
    /\ ~(c.password = "" /\ ~c.whatif)
    /\ ~(c.max_sessions <= 0)
    /\ ~(c.posts_per_session <= 0)
    /\ ~(c.session_delay < 0)
    /\ ~(c.min_action_delay > c.max_action_delay)

\* C9: main goes on past the validation exactly when the configuration
\* meets every listed constraint, and exits with 1 otherwise
C9_ValidateVerdict ==
    pc # "validate" =>
        ((pc = "exited" /\ exit_code = 1) <=> ~C9_Constraints(config))

C9_Witness ==
    /\ pc = "construct"
    /\ config.password = "" /\ config.whatif

\* C10 as stated: a configuration with which a run starts has
\* min_delete_delay <= max_delete_delay
C10_DeleteDelaysOrdered ==
    pc \in {"confirm", "construct"} =>
        config.min_delete_delay <= config.max_delete_delay


C12_PreconditionFailureReturns ==
    outcome = "precondition_failed" =>
        /\ pc \in {"run_return", "finally", "exited"}
        /\ sessions_started = 0
        /\ posts = <<>> /\ attempted = <<>>
        /\ stats = ZeroStats
        /\ pc # "run_return" =>
             exit_code = 0 /\ printed = <<get_final_stats(ZeroStats)>>

\* a real run whose login or navigation failed has ended
C12_Witness ==
    /\ pc = "exited"
    /\ outcome = "precondition_failed"
    /\ ~config.whatif
    /\ exit_code = 0
    /\ clicks = <<>>

\* C13: deduplication is idempotent: the loop of find_posts_on_page applied
\* to a list that is its own output returns that list, same elements in the
\* same order.
C13_DedupIdempotent ==
    pc = "dedup_done" => lists[3] = lists[2]

\* a list with a repeated identifier has been deduplicated twice, and at
\* least two elements are left
C13_Witness ==
    /\ pc = "dedup_done"
    /\ Len(lists[2]) < Len(lists[1])
    /\ Len(lists[2]) >= 2
    /\ lists[3] = lists[2]

\* C14: the delay slept by the per-deletion pause lies within
\* [min_delete_delay, max_delete_delay], the bounds it was given, and equals
\* that value when the two are equal.
C14_DelayWithinBounds ==
    (pc = "next_item" /\ slept # <<>>) =>
        /\ config.min_delete_delay <= slept[1]
        /\ slept[1] <= config.max_delete_delay
        /\ config.min_delete_delay = config.max_delete_delay =>
             slept[1] = config.min_delete_delay

\* C15: in real mode, when the delete option has been clicked and no confirm
\* control is found, the attempt ends as Deleted if the item is no longer on
\* the page and as Skipped otherwise.
C15_UnconfirmedFollowsPostCondition ==
    (/\ pc = "attempt_done"
     /\ ~config.whatif
     /\ clicks = <<"menu", "delete">>
     /\ confirm_button = "None"
     /\ ~raised)
    => IF item_gone THEN OutcomeDeleted ELSE OutcomeSkipped

\* the positions inside attempt_post_deletion
AttemptPcs == {"scroll", "whatif_check", "menu_lookup", "menu_check",
               "delete_lookup", "delete_check", "confirm_lookup",
               "confirm_check"}

LoopPcs == AttemptPcs \cup {"session_head", "scan", "for_item",
                            "attempt_done", "delete_pause", "next_item",
                            "batch_return", "cooldown", "continue_check"}

\* C17: an item attempt that has completed has added 1 to exactly one of
\* posts_deleted, posts_skipped, errors_encountered, has left posts_found
\* and sessions_completed as they were, and has returned True exactly when
\* the counter is posts_deleted; hence the values delete_posts_batch returns
\* (the per-session deleted counts) add up to posts_deleted.
C17_OneCounterPerAttempt ==
    /\ pc = "attempt_done" =>
         /\ OutcomeDeleted \/ OutcomeSkipped \/ OutcomeErrored
         /\ stats.posts_found = stats0.posts_found
         /\ stats.sessions_completed = stats0.sessions_completed
    /\ pc \in LoopPcs =>
         stats.posts_deleted =
             batches_deleted + deleted_count
             + (IF pc = "attempt_done" /\ ret THEN 1 ELSE 0)
    /\ outcome = "completed" => stats.posts_deleted = batches_deleted

\* a real run of two sessions has returned: deletions in both, and a skip
C17_Witness ==
    /\ pc = "exited"
    /\ outcome = "completed"
    /\ ~config.whatif
    /\ stats.sessions_completed >= 2
    /\ stats.posts_deleted >= 2
    /\ stats.posts_skipped >= 1
    /\ batches_deleted = stats.posts_deleted

\* the three clicks of a real deletion, in the order of the source
DeletionClicks == <<"menu", "delete", "confirm">>

\* C18: in real mode posts_deleted is incremented for an item only after the
\* menu click, the delete-option click and the confirm click have been
\* invoked in that order; within one attempt each of the three is invoked
\* at most once and no step is executed again.
C18_DeletedAfterThreeClicks ==
    (~config.whatif /\ pc \in AttemptPcs \cup {"attempt_done"}) =>
        /\ Len(clicks) <= Len(DeletionClicks)
        /\ clicks = SubSeq(DeletionClicks, 1, Len(clicks))
        /\ stats.posts_deleted # stats0.posts_deleted =>
             /\ pc = "attempt_done"
             /\ clicks = DeletionClicks
             /\ OutcomeDeleted

\* a real attempt has ended as Deleted
C18_Witness ==
    /\ pc = "attempt_done"
    /\ ~config.whatif
    /\ OutcomeDeleted
    /\ clicks = DeletionClicks

\* C19 (as stated): between two consecutive item attempts of a session a
\* per-deletion delay is performed, whatever the outcome of the earlier one.
C19_PauseBetweenAttempts ==
    (pc = "next_item" /\ i + 1 < Len(posts_to_process)) => slept # <<>>

\* C19 (amended): after an item attempt a per-deletion delay, drawn between
\* min_delete_delay and max_delete_delay, is performed exactly when the
\* attempt returned True (Deleted), the last item of the batch included;
\* after a Skipped or Errored attempt the loop goes on without it.
C19_PauseAfterDeletedOnly ==
    pc = "next_item" =>
        IF ret
        THEN /\ Len(slept) = 1
             /\ slept[1] \in uniform(config.min_delete_delay,
                                     config.max_delete_delay)
        ELSE slept = <<>>

\* in a real batch an attempt that did not delete is over, no pause was
\* made, and a further item follows
C19_Witness ==
    /\ pc = "next_item"
    /\ ~config.whatif
    /\ ~ret
    /\ slept = <<>>
    /\ i + 1 < Len(posts_to_process)

\* C20: a cooldown that has been performed is followed by the start of
\* another session: when the loop decides whether to continue after a
\* cooldown, the session just completed has deleted something, so the loop
\* does not end there.
C20_CooldownThenSession ==
    (pc = "continue_check" /\ slept # <<>>) =>
        /\ session_deleted # 0
        /\ session + 1 < config.max_sessions

\* the total of a sequence of durations
RECURSIVE SumSeq(_)
SumSeq(q) == IF q = <<>> THEN 0 ELSE q[1] + SumSeq(Tail(q))

\* C21: no cooldown is performed after the last planned session (0-based
\* index max_sessions - 1), and after every earlier session whose batch has
\* returned the sleeps of the cooldown add up to session_delay seconds: one
\* sleep of session_delay, or session_delay sleeps of one second when
\* verbose.
C21_CooldownExceptLast ==
    pc = "continue_check" =>
        IF session < config.max_sessions - 1
        THEN /\ SumSeq(slept) = config.session_delay
             /\ slept = IF config.verbose
                        THEN [k \in 1 .. config.session_delay |-> 1]
                        ELSE <<config.session_delay>>
        ELSE slept = <<>>

\* the countdown after the first of several sessions has run to its end
C21_Witness ==
    /\ pc = "continue_check"
    /\ config.verbose
    /\ config.session_delay >= 1
    /\ session = 0
    /\ config.max_sessions >= 2
    /\ Len(slept) = config.session_delay

\* main's handlers and what follows them
HandlerPcs == {"except_interrupt", "finally", "exited"}

\* C22: after an interrupt raised during the pause after a deletion or
\* during the pause between sessions (countdown or plain sleep), control is
\* in main's handler or beyond: no item attempt and no session is started
\* any more, the counters are those of the moment of the interrupt (no
\* handler of an attempt has counted it as an error), and main returns 130.
C22_InterruptEndsRun ==
    outcome \in {"interrupt_in_pause", "interrupt_in_cooldown"} =>
        /\ interrupted
        /\ pc \in HandlerPcs
        /\ stats = stats_at_interrupt
        /\ attempted = <<>> /\ ~raised
        /\ sessions_started = stats.sessions_completed
                              + (IF outcome = "interrupt_in_pause" THEN 1 ELSE 0)
        /\ pc = "exited" => exit_code = 130

\* a verbose real run interrupted in the countdown between sessions, after a
\* deletion, has ended
C22_Witness ==
    /\ pc = "exited"
    /\ outcome = "interrupt_in_cooldown"
    /\ config.verbose /\ ~config.whatif
    /\ stats.posts_deleted >= 1
    /\ stats.sessions_completed = 1
    /\ exit_code = 130

\* the positions between the start of a session and the return of its batch
InSessionPcs == AttemptPcs \cup {"scan", "for_item", "attempt_done",
                                 "delete_pause", "next_item", "batch_return"}

\* C23: sessions_completed is the number of sessions whose batch has
\* returned: inside the loop it is the loop index, plus one once the batch
\* of the current session has returned; it lags the number of sessions
\* started by one exactly while a session is in progress (or was cut short
\* by an exception or an interrupt), equals it when the run returns, early
\* stop included, and never exceeds max_sessions.
C23_SessionsCompletedCounts ==
    /\ stats.sessions_completed <= config.max_sessions
    /\ pc \in LoopPcs =>
         stats.sessions_completed =
             IF pc \in {"cooldown", "continue_check"} THEN session + 1
             ELSE session
    /\ pc \in InSessionPcs => stats.sessions_completed = sessions_started - 1
    /\ pc \in {"session_head", "cooldown", "continue_check"} =>
         stats.sessions_completed = sessions_started
    /\ stats.sessions_completed \in {sessions_started - 1, sessions_started}
    /\ outcome = "completed" => stats.sessions_completed = sessions_started
    /\ zero_session # 0 => stats.sessions_completed = zero_session

\* a run has stopped early after its second session, which deleted nothing
C23_Witness ==
    /\ pc = "exited"
    /\ outcome = "completed"
    /\ config.max_sessions >= 3
    /\ zero_session = 2
    /\ stats.sessions_completed = 2
    /\ stats.posts_deleted >= 1

\* C24: sessions run one at a time in increasing index order (the number
\* of sessions started is the loop index plus one from the start of a
\* session to the decision after it), and within a session the items are
\* attempted one at a time in the order of the deduplicated scan: the items
\* handed to the attempt so far are the first ones of the scan result, the
\* current one has index i, and while an attempt is under way every counter
\* is as it was when it began (all earlier outcomes are already counted).
C24_OneAtATimeInOrder ==
    /\ pc = "session_head" => sessions_started = session
    /\ pc \in InSessionPcs \cup {"cooldown", "continue_check"} =>
         sessions_started = session + 1
    /\ \A k \in 1 .. Len(posts) - 1 : posts[k] < posts[k + 1]
    /\ attempted = SubSeq(posts, 1, Len(attempted))
    /\ pc \in {"for_item", "batch_return"} => Len(attempted) = i
    /\ pc \in AttemptPcs \cup {"attempt_done", "delete_pause", "next_item"} =>
         /\ Len(attempted) = i + 1
         /\ attempted[i + 1] = posts_to_process[i + 1]
    /\ pc \in AttemptPcs => stats = stats0

\* the second item of the second session is being attempted
C24_Witness ==
    /\ pc = "scroll"
    /\ session = 1
    /\ i = 1
    /\ Len(attempted) = 2
    /\ stats.sessions_completed = 1

\* position of the first candidate of a list that carries an identifier
FirstWith(list, x) ==
    CHOOSE k \in 1 .. Len(list) :
        /\ ElementId(list[k]) = x
        /\ \A m \in 1 .. k - 1 : ElementId(list[m]) # x

\* C25: the deduplicated list is an order-preserving subsequence of the raw
\* candidate list: its identifiers are pairwise distinct, they are exactly
\* the identifiers of the raw list, each retained element is the first raw
\* candidate with its identifier, and these first positions increase along
\* the result.
C25_DedupKeepsFirstInOrder ==
    pc \in {"dedup_again", "dedup_done"} =>
        LET all_posts == lists[1]
            unique_posts == lists[2]
        IN  /\ \A j, k \in 1 .. Len(unique_posts) :
                 j # k => ElementId(unique_posts[j]) # ElementId(unique_posts[k])
            /\ {ElementId(unique_posts[j]) : j \in 1 .. Len(unique_posts)}
                 = {ElementId(all_posts[k]) : k \in 1 .. Len(all_posts)}
            /\ \A j \in 1 .. Len(unique_posts) :
                 unique_posts[j]
                   = all_posts[FirstWith(all_posts, ElementId(unique_posts[j]))]
            /\ \A j, k \in 1 .. Len(unique_posts) :
                 j < k => FirstWith(all_posts, ElementId(unique_posts[j]))
                            < FirstWith(all_posts, ElementId(unique_posts[k]))

\* three candidates, the third repeating the identifier of the first as a
\* different element, have been reduced to two
C25_Witness ==
    /\ pc = "dedup_again"
    /\ Len(lists[1]) = 3
    /\ Len(lists[2]) = 2
    /\ ElementId(lists[1][1]) = ElementId(lists[1][3])
    /\ lists[1][1] # lists[1][3]
    /\ ElementId(lists[1][2]) # ElementId(lists[1][1])

\* every candidate carries the data-testid of the first, which is not empty
SameTestId(all_posts) ==
    /\ all_posts # <<>>
    /\ all_posts[1].testid # ""
    /\ \A k \in 1 .. Len(all_posts) : all_posts[k].testid = all_posts[1].testid

\* C26: when all candidates of a scan carry the same data-testid, as those
\* returned by the first selector always do, deduplication keeps the first
\* candidate only, and the session attempts at most one item whatever
\* posts_per_session is and however many candidates were scanned.
C26_SameTestIdOneItem ==
    /\ [](lists # <<>> /\ pc \in InSessionPcs \ {"scan"} /\ SameTestId(lists[1])
            => /\ UniquePosts(lists[1]) = <<lists[1][1]>>
               /\ posts = <<1>>
               /\ posts_to_process = <<1>>
               /\ i <= 1
               /\ Len(attempted) <= 1
               /\ deleted_count <= 1)
    /\ [][pc = "scan" /\ sel = 1 /\ pc' = "for_item"
            => /\ SameTestId(lists'[1])
               /\ posts_to_process' = <<1>>]_vars

\* a session with posts_per_session = 2 has scanned two different elements
\* with one data-testid, and has attempted and deleted one item
C26_Witness ==
    /\ pc = "batch_return"
    /\ config.posts_per_session >= 2
    /\ Len(lists[1]) = 2
    /\ SameTestId(lists[1])
    /\ lists[1][1] # lists[1][2]
    /\ Len(attempted) = 1
    /\ deleted_count = 1

\* C27: the scan tries the selectors in declared order, one per step: a
\* selector that matches nothing or fails leaves every counter alone and
\* moves to the next; the first non-empty match ends the scan with that
\* match as the session's items; after the last selector the scan ends with
\* an empty list and no exception, and the batch that follows an empty scan
\* attempts nothing and returns zero deletions.
C27_SelectorsInOrder ==
    [][/\ pc = "scan" =>
            /\ sel \in 1 .. NumPostSelectors
            /\ \/ /\ sel < NumPostSelectors
                  /\ pc' = "scan"
                  /\ sel' = sel + 1
                  /\ stats' = stats
                  /\ posts' = posts
               \/ /\ pc' = "for_item"
                  /\ posts' # <<>>
                  /\ posts_to_process' # <<>>
               \/ /\ sel = NumPostSelectors
                  /\ pc' = "batch_return"
                  /\ posts' = <<>>
                  /\ posts_to_process' = <<>>
                  /\ deleted_count' = 0
                  /\ outcome' = outcome
               \/ pc' \in {"except_exception", "except_interrupt"}
       /\ (pc = "batch_return" /\ posts = <<>> /\ pc' # "except_interrupt") =>
            /\ attempted = <<>>
            /\ session_deleted' = 0
            /\ stats'.posts_deleted = stats.posts_deleted
            /\ stats'.posts_found = stats.posts_found]_vars

\* the second session's scan has found nothing after a first session that
\* deleted an item
C27_Witness ==
    /\ pc = "batch_return"
    /\ posts = <<>>
    /\ session = 1
    /\ stats.posts_deleted >= 1
    /\ stats.sessions_completed = 1
    /\ outcome = ""

\* C28: in real mode, after the menu click, a delete selector that times
\* out only moves to the next selector and changes no counter; when all of
\* them have timed out the attempt ends as skipped (posts_skipped + 1, no
\* error counted), and without a delete option neither the delete click nor
\* the confirm click is made.
C28_NoDeleteOptionSkips ==
    /\ pc = "delete_lookup" =>
         /\ ~config.whatif
         /\ sel \in 1 .. NumDeleteSelectors
         /\ delete_option = "None"
         /\ clicks = <<"menu">>
         /\ stats = stats0
    /\ (/\ ~config.whatif
        /\ pc \in AttemptPcs \cup {"attempt_done"}
        /\ delete_option = "None") =>
         /\ Len(clicks) <= 1
         /\ confirm_button = "None"
         /\ stats.posts_deleted = stats0.posts_deleted
    /\ (pc = "attempt_done" /\ clicks = <<"menu">> /\ ~raised) =>
         /\ delete_option = "None"
         /\ OutcomeSkipped

\* the second item of a session has been skipped after its menu was clicked
\* and no delete option appeared
C28_Witness ==
    /\ pc = "attempt_done"
    /\ ~config.whatif
    /\ i = 1
    /\ clicks = <<"menu">>
    /\ ~raised
    /\ delete_option = "None"
    /\ stats.posts_skipped = stats0.posts_skipped + 1
    /\ stats.errors_encountered = 0

\* C29 as stated: while a session other than the first is under way the page
\* has been refreshed once for it and for every later session before it, and
\* not at all during the first session.
C29_RefreshBeforeLaterSessions ==
    pc \in InSessionPcs => refreshes = session

\* C29, amended: in real mode the page is refreshed once at the start of
\* every session except the first, before that session's scan; in what-if
\* mode no refresh is ever made and later sessions scan the page as it is.
C29_RefreshInRealModeOnly ==
    /\ pc \in InSessionPcs \cup {"cooldown", "continue_check"} =>
         refreshes = IF config.whatif THEN 0 ELSE session
    /\ sessions_started = 0 => refreshes = 0
    /\ refreshes <= sessions_started

\* the third session of a real run is at its scan after two refreshes
C29_Witness ==
    /\ pc = "scan"
    /\ ~config.whatif
    /\ session = 2
    /\ refreshes = 2
    /\ stats.sessions_completed = 2

\* C30: the cleaner, the browser session, the login and every click exist
\* only after the configuration has passed validation and, in real mode,
\* the operator has typed exactly DELETE at the prompt; an invalid
\* configuration ends main with exit code 1 and any other answer at the
\* prompt ends it with exit code 0, both before anything is started.
C30_NothingStartsUnconfirmed ==
    /\ (\/ pc \in RunPcs \cup {"except_interrupt", "except_exception", "finally"}
        \/ browser_created
        \/ cleaner # "None"
        \/ clicks # <<>>
        \/ sessions_started > 0
        \/ quit_calls > 0) =>
         /\ validate_config(config)
         /\ config.whatif => confirm = "None"
         /\ ~config.whatif => confirm = "DELETE"
    /\ outcome = "invalid" =>
         /\ ~validate_config(config)
         /\ pc = "exited" /\ exit_code = 1
         /\ ~browser_created /\ cleaner = "None" /\ clicks = <<>>
    /\ outcome = "declined" =>
         /\ ~config.whatif /\ confirm \notin {"None", "DELETE"}
         /\ pc = "exited" /\ exit_code = 0
         /\ ~browser_created /\ cleaner = "None" /\ clicks = <<>>
    /\ ~validate_config(config) =>
         /\ pc \in {"start", "validate", "exited"}
         /\ pc = "exited" =>
              outcome \in {"invalid", "template_saved", "template_failed",
                           "load_failed"}
    /\ (pc = "exited" /\ confirm \notin {"None", "DELETE"}) => outcome = "declined"

\* a real run, confirmed with DELETE, is about to make the confirm click of
\* an item
C30_Witness ==
    /\ pc = "confirm_check"
    /\ ~config.whatif
    /\ confirm = "DELETE"
    /\ validate_config(config)
    /\ browser_created
    /\ clicks = <<"menu", "delete">>

\* C31: a run in which every call and every sleep returns or raises comes to
\* its end; it enters at most max_sessions sessions and attempts at most
\* posts_per_session items in each, and a run whose session loop was
\* entered and left without an exception ended at the session limit, after
\* its first session without a deletion, or by an interrupt.
C31_RunTerminates ==
    /\ [](/\ sessions_started <= config.max_sessions
          /\ session <= config.max_sessions
          /\ Len(attempted) <= config.posts_per_session
          /\ i <= config.posts_per_session
          /\ (pc = "exited" /\ sessions_started > 0 /\ outcome # "exception") =>
               \/ /\ outcome = "completed"
                  /\ zero_session = 0
                  /\ sessions_started = config.max_sessions
                  /\ stats.sessions_completed = config.max_sessions
               \/ /\ outcome = "completed"
                  /\ zero_session = sessions_started
               \/ /\ interrupted
                  /\ outcome \in {"interrupt", "interrupt_in_pause",
                                  "interrupt_in_cooldown"})
    /\ <>(pc = "exited")

\* a run of three sessions, each with a deletion, has ended at the session
\* limit
C31_Witness ==
    /\ pc = "exited"
    /\ outcome = "completed"
    /\ config.max_sessions >= 3
    /\ zero_session = 0
    /\ sessions_started = config.max_sessions
    /\ stats.posts_deleted >= config.max_sessions

\* C32: the merged configuration has max_sessions, posts_per_session,
\* session_delay, page_timeout, min_action_delay and max_action_delay equal
\* to the values of the parsed command line, which are the option's value or
\* its default and never a number of the file; email, password, headless
\* and user agent are those of the configuration before the merge when
\* their option was not given.
C32_MergeTakesCommandLine ==
    /\ [][pc = "merge" =>
            /\ config'.cleaning.max_sessions = args.sessions
            /\ config'.cleaning.posts_per_session = args.posts_per_session
            /\ config'.timing.session_delay = args.session_delay
            /\ config'.timing.page_timeout = args.page_timeout
            /\ config'.timing.min_action_delay = args.min_delay
            /\ config'.timing.max_action_delay = args.max_delay
            /\ args.email = "None" =>
                 config'.credentials.email = config.credentials.email
            /\ args.password = "None" =>
                 config'.credentials.password = config.credentials.password
            /\ ~args.headless =>
                 config'.browser.headless = config.browser.headless
            /\ args.user_agent = "None" =>
                 config'.browser.user_agent = config.browser.user_agent]_vars
    /\ [](pc = "merged" =>
            /\ config.cleaning.max_sessions \in {DefaultSessions, 4}
            /\ config.cleaning.posts_per_session \in {DefaultPostsPerSession, 4}
            /\ config.timing.session_delay \in {DefaultSessionDelay, 4}
            /\ config.timing.page_timeout \in {DefaultPageTimeout, 4}
            /\ config.timing.min_action_delay \in {DefaultMinDelay, 4}
            /\ config.timing.max_action_delay \in {DefaultMaxDelay, 4})

\* a file with its own numbers, address, user agent and headless setting
\* has been merged with a command line that gives --page-timeout only
C32_Witness ==
    /\ pc = "merged"
    /\ config.timing.min_delete_delay = 8
    /\ args.email = "None" /\ args.user_agent = "None" /\ ~args.headless
    /\ config.credentials.email = "file@example.com"
    /\ config.browser.user_agent = "file-agent"
    /\ config.browser.headless
    /\ config.cleaning.max_sessions = DefaultSessions
    /\ config.cleaning.posts_per_session = DefaultPostsPerSession
    /\ config.timing.session_delay = DefaultSessionDelay
    /\ config.timing.page_timeout = 4
=============================================================================
